---- MODULE Spec2Model ----
(***************************************************************************)
(* Model of llumnix's GlobalScheduler (global_scheduler.py) and its        *)
(* MigrationScheduler with the three check-migrate policies                *)
(* (migration_scheduler.py), and of the retry helpers, launch_ray_cluster  *)
(* and init_manager of the entrypoints (llumnix_utils.py).                 *)
(*                                                                         *)
(* A Python dict is a sequence of entries [key, val] in insertion order;   *)
(* a float is a record [k, v] with k in {"ninf", "fin", "pinf", "nan"}.    *)
(* InstanceInfo, InstanceLoadCalculator and ScaleScheduler are not part of *)
(* the sources at hand and are modelled from the specification.            *)
(***************************************************************************)
EXTENDS Integers, Sequences, FiniteSets, TLC

VARIABLES
    global_scheduler_config,   \* GlobalScheduler.global_scheduler_config (the fields used here)
    check_migrate_policy,      \* MigrationScheduler.check_migrate_policy (the policy object)
    instance_info,             \* GlobalScheduler.instance_info: dict, in insertion order
    instance_id_set,           \* GlobalScheduler.instance_id_set
    num_instance,              \* GlobalScheduler.num_instance
    ms_instance_info,          \* MigrationScheduler.instance_info: None or the registry dict
    ms_instance_id_set,        \* MigrationScheduler.instance_id_set
    ms_num_instance,           \* MigrationScheduler.num_instance
    last_op,                   \* the public operation called last
    args,                      \* its argument
    ret,                       \* its return value (the pairs of check_migrate)
    raised,                    \* the exception it raised, "none" if it returned
    in_update,                 \* an update_instance_infos in progress on a thread of its own
    retry,                     \* a retry_manager_method_sync / _async in progress
    launch,                    \* a launch_ray_cluster in progress
    named_actor,               \* the actor named MANAGER_ACTOR_NAME in ray's namespace 'llumnix'
    init_frames                \* the init_manager in progress on each node

vars == <<global_scheduler_config, check_migrate_policy, instance_info, instance_id_set,
          num_instance, ms_instance_info, ms_instance_id_set, ms_num_instance,
          last_op, args, ret, raised, in_update, retry, launch, named_actor, init_frames>>

----------------------------------------------------------------------------
(* Bounds *)

\* ids a caller of the lifecycle operations may name
MaxInstance == 2
\* longest argument list of scale_up / scale_down / update_instance_infos
MaxBatch == 2
\* counters of a heartbeat
MaxRunning == 1
MaxKilled == 1
\* instances of a registry snapshot handed to a policy, and its counters
MaxFleet == 3
MaxFleetRunning == 3
MaxBlockLast == 1
\* configured migrate_out_load_threshold ranges over 0..MaxThreshold
MaxThreshold == 1
\* values a manager call may return
MaxResult == 2
\* nodes that run init_manager
MaxNode == 4

InstanceIds == 1..MaxInstance
FleetIds == 1..MaxFleet
Policies == {"balanced", "prefill_constrained", "prefill_relaxed"}

----------------------------------------------------------------------------
(* Floats: the loads and their differences *)

Fin(n) == [k |-> "fin", v |-> n]
NegInf == [k |-> "ninf", v |-> 0]
PosInf == [k |-> "pinf", v |-> 0]
NaN == [k |-> "nan", v |-> 0]

\* a < b
FLt(a, b) ==
    /\ a.k # "nan"
    /\ b.k # "nan"
    /\ \/ a.k = "ninf" /\ b.k # "ninf"
       \/ a.k = "fin" /\ b.k = "pinf"
       \/ a.k = "fin" /\ b.k = "fin" /\ a.v < b.v

\* a > b
FGt(a, b) == FLt(b, a)

\* a == b
FEq(a, b) == a.k # "nan" /\ b.k # "nan" /\ a.k = b.k /\ (a.k = "fin" => a.v = b.v)

\* a - b
FSub(a, b) ==
    IF a.k = "nan" \/ b.k = "nan" THEN NaN
    ELSE IF a.k = "fin" /\ b.k = "fin" THEN Fin(a.v - b.v)
    ELSE IF a.k = b.k THEN NaN
    ELSE IF a.k = "pinf" \/ b.k = "ninf" THEN PosInf
    ELSE NegInf

----------------------------------------------------------------------------
(* Dicts *)

Keys(d) == {d[i].key : i \in 1..Len(d)}
Values(d) == [i \in 1..Len(d) |-> d[i].val]
DictGet(d, key) == d[CHOOSE i \in 1..Len(d) : d[i].key = key].val

\* d[key] = val: an existing key keeps its position, a new one goes last
DictSet(d, key, val) ==
    IF key \in Keys(d)
    THEN [i \in 1..Len(d) |-> IF d[i].key = key THEN [key |-> key, val |-> val] ELSE d[i]]
    ELSE Append(d, [key |-> key, val |-> val])

\* DictDel that leaves the entry in place
DictDel_KeepsEntry(d, key) == d

\* del d[key]
DictDel(d, key) == SelectSeq(d, LAMBDA e : e.key # key)

----------------------------------------------------------------------------
(* InstanceInfo and InstanceLoadCalculator *)

\* an InstanceInfo as a heartbeat delivers it: the two derived loads are still unset
InstanceInfo(id, running, killed, free, blk) ==
    [instance_id |-> id,
     num_running_request |-> running,
     num_killed_request |-> killed,
     num_free_gpu_block |-> free,
     num_block_last_running_request |-> blk,
     instance_load_dispatch_scale |-> NegInf,
     instance_load_migrate |-> NegInf]

\* ScaleScheduler.get_empty_instance_info(): zero counters, both loads at -inf
get_empty_instance_info ==
    [instance_id |-> 0,
     num_running_request |-> 0,
     num_killed_request |-> 0,
     num_free_gpu_block |-> 0,
     num_block_last_running_request |-> 0,
     instance_load_dispatch_scale |-> NegInf,
     instance_load_migrate |-> NegInf]

\* InstanceLoadCalculator.compute_instance_load(info, action): higher is more loaded,
\* monotone in the running requests and in the blocks in use, one formula per action
compute_instance_load(info, action) ==
    IF action = "dispatch"
    THEN Fin(info.num_running_request + info.num_killed_request - info.num_free_gpu_block)
    ELSE Fin(info.num_running_request - info.num_free_gpu_block)

----------------------------------------------------------------------------
(* MigrationScheduler *)

\* MigrationScheduler.__init__: the policy in force
\* MigrationScheduler_init that takes the configured name whatever the flag
MigrationScheduler_init_IgnoresFlag(policy_name, enable_prefill_migrate) == policy_name

MigrationScheduler_init(policy_name, enable_prefill_migrate) ==
    IF ~enable_prefill_migrate THEN "balanced" ELSE policy_name

\* sorted(): x goes behind every element that is not greater than it (stable)
RECURSIVE InsertSorted(_, _, _)
InsertSorted(s, x, descending) ==
    IF s = <<>> THEN <<x>>
    ELSE LET y == s[Len(s)]
             before == IF descending
                       THEN FLt(y.instance_load_migrate, x.instance_load_migrate)
                       ELSE FLt(x.instance_load_migrate, y.instance_load_migrate)
         IN IF before
            THEN Append(InsertSorted(SubSeq(s, 1, Len(s) - 1), x, descending), y)
            ELSE Append(s, x)

\* MigrationScheduler._sort_instance_infos
RECURSIVE sort_instance_infos(_, _)
sort_instance_infos(infos, descending) ==
    IF infos = <<>> THEN <<>>
    ELSE InsertSorted(sort_instance_infos(SubSeq(infos, 1, Len(infos) - 1), descending),
                      infos[Len(infos)], descending)

\* reversed()
Reversed(s) == [i \in 1..Len(s) |-> s[Len(s) + 1 - i]]

Min(a, b) == IF a < b THEN a ELSE b

\* IsMigrateIn with "or" for "and"
IsMigrateIn_Either(i, threshold) ==
    i.num_killed_request = 0 \/ FLt(i.instance_load_migrate, threshold)

\* IsMigrateIn that lets in a load at the threshold
IsMigrateIn_AtThreshold(i, threshold) ==
    i.num_killed_request = 0 /\ ~FGt(i.instance_load_migrate, threshold)

\* the migrate-in filter of the three policies
IsMigrateIn(i, threshold) ==
    i.num_killed_request = 0 /\ FLt(i.instance_load_migrate, threshold)

\* the migrate-out filter of Balanced and PrefillConstrained
\* IsMigrateOut that takes a load equal to the threshold as well
IsMigrateOut_AtThreshold(i, threshold) ==
    i.num_killed_request > 0 \/ ~FLt(i.instance_load_migrate, threshold)

IsMigrateOut(i, threshold) ==
    i.num_killed_request > 0 \/ FGt(i.instance_load_migrate, threshold)

\* Balanced._compute_instance_load_after_migrate: computed on a deep copy
compute_instance_load_after_migrate(info, is_migrate_in) ==
    LET blk == info.num_block_last_running_request
        instance_info_after_migrate ==
            IF is_migrate_in
            THEN [info EXCEPT !.num_running_request = @ + 1, !.num_free_gpu_block = @ - blk]
            ELSE [info EXCEPT !.num_running_request = @ - 1, !.num_free_gpu_block = @ + blk]
    IN compute_instance_load(instance_info_after_migrate, "migrate")

\* BalancedAccepts with the threshold test alone
BalancedAccepts_ThresholdOnly(left, right, threshold) ==
    ~FGt(compute_instance_load_after_migrate(left, TRUE), threshold)

\* BalancedAccepts without "0 <"
BalancedAccepts_AnyGap(left, right, threshold) ==
    LET load_diff_before_mig == FSub(right.instance_load_migrate, left.instance_load_migrate)
        left_load_after_mig == compute_instance_load_after_migrate(left, TRUE)
        right_load_after_mig == compute_instance_load_after_migrate(right, FALSE)
        load_diff_after_mig == FSub(right_load_after_mig, left_load_after_mig)
    IN /\ ~FGt(left_load_after_mig, threshold)
       /\ \/ FLt(load_diff_after_mig, load_diff_before_mig)
          \/ FEq(left.instance_load_migrate, NegInf)

\* BalancedAccepts that tests the sentinel before the threshold
BalancedAccepts_SentinelFirst(left, right, threshold) ==
    LET load_diff_before_mig == FSub(right.instance_load_migrate, left.instance_load_migrate)
        left_load_after_mig == compute_instance_load_after_migrate(left, TRUE)
        right_load_after_mig == compute_instance_load_after_migrate(right, FALSE)
        load_diff_after_mig == FSub(right_load_after_mig, left_load_after_mig)
    IN \/ FEq(left.instance_load_migrate, NegInf)
       \/ /\ ~FGt(left_load_after_mig, threshold)
          /\ FLt(Fin(0), load_diff_after_mig)
          /\ FLt(load_diff_after_mig, load_diff_before_mig)

\* the body of Balanced's loop at one position: is the pair appended
BalancedAccepts(left, right, threshold) ==
    LET load_diff_before_mig == FSub(right.instance_load_migrate, left.instance_load_migrate)
        left_load_after_mig == compute_instance_load_after_migrate(left, TRUE)
        right_load_after_mig == compute_instance_load_after_migrate(right, FALSE)
        load_diff_after_mig == FSub(right_load_after_mig, left_load_after_mig)
    IN /\ ~FGt(left_load_after_mig, threshold)
       /\ \/ FLt(Fin(0), load_diff_after_mig) /\ FLt(load_diff_after_mig, load_diff_before_mig)
          \/ FEq(left.instance_load_migrate, NegInf)

\* the loop of Balanced.check_migrate over the positions 1..n
RECURSIVE BalancedLoop(_, _, _, _)
BalancedLoop(left_instance_infos, right_instance_infos, n, threshold) ==
    IF n = 0 THEN <<>>
    ELSE LET migrate_instance_pairs ==
                 BalancedLoop(left_instance_infos, right_instance_infos, n - 1, threshold)
         IN IF BalancedAccepts(left_instance_infos[n], right_instance_infos[n], threshold)
            THEN Append(migrate_instance_pairs,
                        <<right_instance_infos[n].instance_id, left_instance_infos[n].instance_id>>)
            ELSE migrate_instance_pairs

\* PrefillLoop that takes every source from the first position
PrefillLoop_FirstSource(left_instance_infos, right_instance_infos, n) ==
    [i \in 1..n |-> <<right_instance_infos[1].instance_id, left_instance_infos[i].instance_id>>]

\* the loop of PrefillConstrained and PrefillRelaxed: every position gives its pair
PrefillLoop(left_instance_infos, right_instance_infos, n) ==
    [i \in 1..n |-> <<right_instance_infos[i].instance_id, left_instance_infos[i].instance_id>>]

\* the migrate-in instances of the three policies
LeftInstanceInfos(sorted_instance_infos, threshold) ==
    SelectSeq(sorted_instance_infos, LAMBDA i : IsMigrateIn(i, threshold))

\* the migrate-out instances of Balanced and PrefillConstrained
RightInstanceInfos(sorted_instance_infos, threshold) ==
    SelectSeq(Reversed(sorted_instance_infos), LAMBDA i : IsMigrateOut(i, threshold))

\* Balanced.check_migrate
Balanced_check_migrate(sorted_instance_infos, threshold) ==
    LET left_instance_infos == LeftInstanceInfos(sorted_instance_infos, threshold)
        right_instance_infos == RightInstanceInfos(sorted_instance_infos, threshold)
    IN BalancedLoop(left_instance_infos, right_instance_infos,
                    Min(Len(left_instance_infos), Len(right_instance_infos)), threshold)

\* PrefillConstrained.check_migrate
PrefillConstrained_check_migrate(sorted_instance_infos, threshold) ==
    LET left_instance_infos == LeftInstanceInfos(sorted_instance_infos, threshold)
        right_instance_infos == RightInstanceInfos(sorted_instance_infos, threshold)
    IN PrefillLoop(left_instance_infos, right_instance_infos,
                   Min(Len(left_instance_infos), Len(right_instance_infos)))

\* PrefillRelaxed.check_migrate
PrefillRelaxed_check_migrate(sorted_instance_infos, threshold) ==
    LET left_instance_infos == LeftInstanceInfos(sorted_instance_infos, threshold)
        right_instance_infos == Reversed(sorted_instance_infos)
    IN PrefillLoop(left_instance_infos, right_instance_infos,
                   Min(Len(left_instance_infos), Len(right_instance_infos)))

\* the object handed to _compute_instance_load_after_migrate, adjusted itself
InstanceInfoAfterProjection_InPlace(info, is_migrate_in) ==
    LET blk == info.num_block_last_running_request
    IN IF is_migrate_in
       THEN [info EXCEPT !.num_running_request = @ + 1, !.num_free_gpu_block = @ - blk]
       ELSE [info EXCEPT !.num_running_request = @ - 1, !.num_free_gpu_block = @ + blk]

\* the object handed to _compute_instance_load_after_migrate once the call is
\* over: the adjustments went to the copy.deepcopy of it
InstanceInfoAfterProjection(info, is_migrate_in) == info

\* the dict the sorted list was taken from, once Balanced.check_migrate is over:
\* the loop projects the objects at the positions 1..n of both lists
Balanced_registry_after(registry, sorted_instance_infos, threshold) ==
    LET left_instance_infos == LeftInstanceInfos(sorted_instance_infos, threshold)
        right_instance_infos == RightInstanceInfos(sorted_instance_infos, threshold)
        n == Min(Len(left_instance_infos), Len(right_instance_infos))
        InLeft(id) == \E i \in 1..n : left_instance_infos[i].instance_id = id
        InRight(id) == \E i \in 1..n : right_instance_infos[i].instance_id = id
        After(e) ==
            LET in == IF InLeft(e.key) THEN InstanceInfoAfterProjection(e.val, TRUE) ELSE e.val
            IN IF InRight(e.key) THEN InstanceInfoAfterProjection(in, FALSE) ELSE in
    IN [k \in 1..Len(registry) |-> [key |-> registry[k].key, val |-> After(registry[k])]]

\* the dict the migration scheduler was handed, once check_migrate is over:
\* sorted(), reversed() and the filters build new lists of the same objects
MigrationScheduler_registry_after(policy, registry, threshold) ==
    LET sorted_instance_infos == sort_instance_infos(Values(registry), FALSE)
    IN IF policy = "balanced"
       THEN Balanced_registry_after(registry, sorted_instance_infos, threshold)
       ELSE registry

\* MigrationScheduler.check_migrate over the dict it was last handed
MigrationScheduler_check_migrate(policy, registry, threshold) ==
    LET sorted_instance_infos == sort_instance_infos(Values(registry), FALSE)
    IN CASE policy = "balanced" -> Balanced_check_migrate(sorted_instance_infos, threshold)
         [] policy = "prefill_constrained" ->
                PrefillConstrained_check_migrate(sorted_instance_infos, threshold)
         [] policy = "prefill_relaxed" ->
                PrefillRelaxed_check_migrate(sorted_instance_infos, threshold)

----------------------------------------------------------------------------
(* GlobalScheduler: the handlers as functions of the scheduler's state *)

\* the mutable state of the GlobalScheduler and of its MigrationScheduler
State ==
    [instance_info |-> instance_info,
     instance_id_set |-> instance_id_set,
     num_instance |-> num_instance,
     ms_instance_info |-> ms_instance_info,
     ms_instance_id_set |-> ms_instance_id_set,
     ms_num_instance |-> ms_num_instance,
     raised |-> "none"]

\* MigrationScheduler.add_instance
MigrationScheduler_add_instance(st, instance_id) ==
    LET set == st.ms_instance_id_set \cup {instance_id}
    IN [st EXCEPT !.ms_instance_id_set = set, !.ms_num_instance = Cardinality(set)]

\* MigrationScheduler.remove_instance that leaves the set as it was
MigrationScheduler_remove_instance_KeepsId(st, instance_id) == st

\* MigrationScheduler.remove_instance: set.remove raises KeyError on a missing id
MigrationScheduler_remove_instance(st, instance_id) ==
    IF instance_id \notin st.ms_instance_id_set
    THEN [st EXCEPT !.raised = "KeyError"]
    ELSE LET set == st.ms_instance_id_set \ {instance_id}
         IN [st EXCEPT !.ms_instance_id_set = set, !.ms_num_instance = Cardinality(set)]

\* MigrationScheduler.update_instance_infos: the scheduler now refers to the dict
MigrationScheduler_update_instance_infos(st) ==
    [st EXCEPT !.ms_instance_info = "registry"]

\* GlobalScheduler._add_instance
GlobalScheduler_add_instance(st, instance_id) ==
    LET set == st.instance_id_set \cup {instance_id}
    IN MigrationScheduler_add_instance(
           MigrationScheduler_update_instance_infos(
               [st EXCEPT !.instance_id_set = set,
                      !.num_instance = Cardinality(set)]),
           instance_id)

\* GlobalScheduler._remove_instance that leaves num_instance as it was
GlobalScheduler_remove_instance_StaleCount(st, instance_id) ==
    IF instance_id \notin st.instance_id_set
    THEN [st EXCEPT !.raised = "KeyError"]
    ELSE LET set == st.instance_id_set \ {instance_id}
         IN MigrationScheduler_remove_instance(
                MigrationScheduler_update_instance_infos(
                    [st EXCEPT !.instance_id_set = set]),
                instance_id)

\* GlobalScheduler._remove_instance
GlobalScheduler_remove_instance(st, instance_id) ==
    IF instance_id \notin st.instance_id_set
    THEN [st EXCEPT !.raised = "KeyError"]
    ELSE LET set == st.instance_id_set \ {instance_id}
         IN MigrationScheduler_remove_instance(
                MigrationScheduler_update_instance_infos(
                    [st EXCEPT !.instance_id_set = set,
                               !.num_instance = Cardinality(set)]),
                instance_id)

\* scale_up_step without the test of the id
scale_up_step_NoGuard(st, ins_id) ==
    LET new_intance_info == [get_empty_instance_info EXCEPT !.instance_id = ins_id]
    IN GlobalScheduler_add_instance(
           [st EXCEPT !.instance_info = DictSet(@, ins_id, new_intance_info)], ins_id)

\* scale_up_step that stores the empty InstanceInfo as it was supplied
scale_up_step_KeepsDummyId(st, ins_id) ==
    LET new_intance_info == get_empty_instance_info
    IN IF ins_id \notin Keys(st.instance_info)
       THEN GlobalScheduler_add_instance(
                [st EXCEPT !.instance_info = DictSet(@, ins_id, new_intance_info)], ins_id)
       ELSE st

\* the body of the loop of GlobalScheduler.scale_up
scale_up_step(st, ins_id) ==
    LET new_intance_info == [get_empty_instance_info EXCEPT !.instance_id = ins_id]
    IN IF ins_id \notin Keys(st.instance_info)
       THEN GlobalScheduler_add_instance(
                [st EXCEPT !.instance_info = DictSet(@, ins_id, new_intance_info)], ins_id)
       ELSE st

\* the loop of GlobalScheduler.scale_up: an exception ends it
RECURSIVE scale_up_loop(_, _)
scale_up_loop(st, instance_ids) ==
    IF instance_ids = <<>> \/ st.raised # "none" THEN st
    ELSE scale_up_loop(scale_up_step(st, Head(instance_ids)), Tail(instance_ids))

\* scale_down_step without the test of the id
scale_down_step_NoGuard(st, ins_id) ==
    GlobalScheduler_remove_instance(
        [st EXCEPT !.instance_info = DictDel(@, ins_id)], ins_id)

\* the body of the loop of GlobalScheduler.scale_down
scale_down_step(st, ins_id) ==
    IF ins_id \in Keys(st.instance_info)
    THEN GlobalScheduler_remove_instance(
             [st EXCEPT !.instance_info = DictDel(@, ins_id)], ins_id)
    ELSE st

\* the loop of GlobalScheduler.scale_down: an exception ends it
RECURSIVE scale_down_loop(_, _)
scale_down_loop(st, instance_ids) ==
    IF instance_ids = <<>> \/ st.raised # "none" THEN st
    ELSE scale_down_loop(scale_down_step(st, Head(instance_ids)), Tail(instance_ids))

\* Ingested with the two actions exchanged
Ingested_ActionsSwapped(info) ==
    [info EXCEPT !.instance_load_dispatch_scale = compute_instance_load(info, "migrate"),
                 !.instance_load_migrate = compute_instance_load(info, "dispatch")]

\* what update_instance_infos stores for an InstanceInfo of a known instance
Ingested(info) ==
    [info EXCEPT !.instance_load_dispatch_scale = compute_instance_load(info, "dispatch"),
                 !.instance_load_migrate = compute_instance_load(info, "migrate")]

\* update_instance_infos_step without the test of the id
update_instance_infos_step_NoGuard(st, info) ==
    [st EXCEPT !.instance_info = DictSet(@, info.instance_id, Ingested(info))]

\* the body of the loop of GlobalScheduler.update_instance_infos
update_instance_infos_step(st, info) ==
    IF info.instance_id \in Keys(st.instance_info)
    THEN [st EXCEPT !.instance_info = DictSet(@, info.instance_id, Ingested(info))]
    ELSE st

\* the loop of GlobalScheduler.update_instance_infos
RECURSIVE update_instance_infos_loop(_, _)
update_instance_infos_loop(st, instance_infos) ==
    IF instance_infos = <<>> THEN st
    ELSE update_instance_infos_loop(update_instance_infos_step(st, Head(instance_infos)),
                                    Tail(instance_infos))

----------------------------------------------------------------------------
(* The scheduler as a state machine *)

\* sequences over S of the lengths lo..hi
SeqsOf(S, lo, hi) == UNION {[1..n -> S] : n \in lo..hi}

\* GlobalSchedulerConfig: the options the migration path reads
Configs ==
    [check_migrate_policy : Policies,
     enable_prefill_migrate : BOOLEAN,
     migrate_out_load_threshold : {Fin(t) : t \in 0..MaxThreshold}]

\* the arguments of scale_up and scale_down
IdLists == SeqsOf(InstanceIds, 0, MaxBatch)

\* the heartbeats the engine manager delivers
HeartbeatInfos ==
    {InstanceInfo(id, running, killed, 0, 0) :
        id \in InstanceIds, running \in 0..MaxRunning, killed \in 0..MaxKilled}

\* the arguments of update_instance_infos
Batches == SeqsOf(HeartbeatInfos, 0, MaxBatch)

\* GlobalScheduler.__init__ and MigrationScheduler.__init__
\* no update_instance_infos is in progress
NoUpdate == [pc |-> "idle", rest |-> <<>>, batch |-> <<>>, before |-> <<>>]

\* no retry_manager_method is in progress; ret 0 is the unbound local
NoRetry ==
    [pc |-> "idle", is_async |-> FALSE, attempt |-> 0, ret |-> 0, exc |-> "none",
     calls |-> 0, failures |-> 0, sleeps |-> 0,
     last_outcome |-> [kind |-> "none", value |-> 0]]

\* no launch_ray_cluster is in progress
NoLaunch ==
    [pc |-> "idle", head_node_ip |-> "None", HEAD_NODE |-> FALSE, attempt |-> 0,
     result |-> "unbound", starts |-> 0, sleeps |-> 0, log |-> {}, exit |-> "none"]

Nodes == 1..MaxNode

\* no node has entered init_manager
NoInit == [n \in Nodes |-> [pc |-> "idle", engine_manager |-> 0, created |-> FALSE]]

Init ==
    /\ global_scheduler_config \in Configs
    /\ check_migrate_policy =
           MigrationScheduler_init(global_scheduler_config.check_migrate_policy,
                                   global_scheduler_config.enable_prefill_migrate)
    /\ instance_info = <<>>
    /\ instance_id_set = {}
    /\ num_instance = 0
    /\ ms_instance_info = "None"
    /\ ms_instance_id_set = {}
    /\ ms_num_instance = 0
    /\ last_op = "init"
    /\ args = <<>>
    /\ ret = <<>>
    /\ raised = "none"
    /\ in_update = NoUpdate
    /\ launch = NoLaunch
    /\ named_actor = 0
    /\ init_frames = NoInit
    /\ retry = NoRetry

\* the handler's final state becomes the scheduler's
Commit(st) ==
    /\ instance_info' = st.instance_info
    /\ instance_id_set' = st.instance_id_set
    /\ num_instance' = st.num_instance
    /\ ms_instance_info' = st.ms_instance_info
    /\ ms_instance_id_set' = st.ms_instance_id_set
    /\ ms_num_instance' = st.ms_num_instance
    /\ raised' = st.raised

\* GlobalScheduler.scale_up
scale_up(instance_ids) ==
    /\ Commit(scale_up_loop(State, instance_ids))
    /\ last_op' = "scale_up"
    /\ args' = instance_ids
    /\ ret' = <<>>
    /\ UNCHANGED <<global_scheduler_config, check_migrate_policy, in_update, retry,
                      launch, named_actor, init_frames>>

\* GlobalScheduler.scale_down
scale_down(instance_ids) ==
    /\ Commit(scale_down_loop(State, instance_ids))
    /\ last_op' = "scale_down"
    /\ args' = instance_ids
    /\ ret' = <<>>
    /\ UNCHANGED <<global_scheduler_config, check_migrate_policy, in_update, retry,
                      launch, named_actor, init_frames>>

\* GlobalScheduler.update_instance_infos
update_instance_infos(instance_infos) ==
    /\ Commit(update_instance_infos_loop(State, instance_infos))
    /\ last_op' = "update_instance_infos"
    /\ args' = instance_infos
    /\ ret' = <<>>
    /\ UNCHANGED <<global_scheduler_config, check_migrate_policy, in_update, retry,
                      launch, named_actor, init_frames>>

\* GlobalScheduler.check_migrate
check_migrate ==
    LET st == MigrationScheduler_update_instance_infos(State)
        threshold == global_scheduler_config.migrate_out_load_threshold
    IN /\ ms_instance_info' = st.ms_instance_info
       /\ IF st.ms_instance_info = "None"
          THEN \* _sort_instance_infos: None has no values()
               /\ raised' = "AttributeError"
               /\ ret' = <<>>
               /\ instance_info' = instance_info
          ELSE /\ raised' = "none"
               /\ ret' = MigrationScheduler_check_migrate(
                             check_migrate_policy, st.instance_info, threshold)
               /\ instance_info' = MigrationScheduler_registry_after(
                                       check_migrate_policy, st.instance_info, threshold)
       /\ last_op' = "check_migrate"
       /\ args' = <<>>
       /\ UNCHANGED <<global_scheduler_config, check_migrate_policy,
                      instance_id_set, num_instance, ms_instance_id_set, ms_num_instance,
                      in_update, retry,
                      launch, named_actor, init_frames>>

Next ==
    \/ \E instance_ids \in IdLists : scale_up(instance_ids)
    \/ \E instance_ids \in IdLists : scale_down(instance_ids)
    \/ \E instance_infos \in Batches : update_instance_infos(instance_infos)
    \/ check_migrate

Spec == Init /\ [][Next]_vars

----------------------------------------------------------------------------
(* The policies over every registry of up to MaxFleet instances *)

\* an instance's entry: admitted and not yet heard of, or as its last heartbeat left it
FleetEntries ==
    {[key |-> id, val |-> [get_empty_instance_info EXCEPT !.instance_id = id]] :
        id \in FleetIds}
    \cup
    {[key |-> id, val |-> Ingested(InstanceInfo(id, running, killed, 0, blk))] :
        id \in FleetIds, running \in 0..MaxFleetRunning,
        killed \in 0..MaxKilled, blk \in 0..MaxBlockLast}

\* the registries scale_up and update_instance_infos can build
Registries ==
    {d \in SeqsOf(FleetEntries, 0, MaxFleet) :
        \A i, j \in 1..Len(d) : d[i].key = d[j].key => i = j}

InitPolicy ==
    /\ global_scheduler_config \in Configs
    /\ check_migrate_policy =
           MigrationScheduler_init(global_scheduler_config.check_migrate_policy,
                                   global_scheduler_config.enable_prefill_migrate)
    /\ instance_info \in Registries
    /\ instance_id_set = Keys(instance_info)
    /\ num_instance = Len(instance_info)
    /\ ms_instance_info = IF instance_info = <<>> THEN "None" ELSE "registry"
    /\ ms_instance_id_set = Keys(instance_info)
    /\ ms_num_instance = Len(instance_info)
    /\ last_op = "init"
    /\ args = <<>>
    /\ ret = <<>>
    /\ raised = "none"
    /\ in_update = NoUpdate
    /\ launch = NoLaunch
    /\ named_actor = 0
    /\ init_frames = NoInit
    /\ retry = NoRetry

NextPolicy == check_migrate

SpecPolicy == InitPolicy /\ [][NextPolicy]_vars

----------------------------------------------------------------------------
(* update_instance_infos and check_migrate called from two threads.  The     *)
(* class holds no lock, so the interpreter may switch threads between two   *)
(* iterations of the loop of update_instance_infos.  check_migrate reads    *)
(* the dict once, in list(self.instance_info.values()), and works on the    *)
(* objects it found there, which update_instance_infos replaces and does    *)
(* not modify; it is one step.                                              *)

\* the scheduler right after construction
NewScheduler ==
    [instance_info |-> <<>>, instance_id_set |-> {}, num_instance |-> 0,
     ms_instance_info |-> "None", ms_instance_id_set |-> {}, ms_num_instance |-> 0,
     raised |-> "none"]

\* the scheduler once scale_up has admitted every instance
InitThreads ==
    LET st == scale_up_loop(NewScheduler, [i \in 1..MaxInstance |-> i])
    IN /\ global_scheduler_config \in Configs
       /\ check_migrate_policy =
              MigrationScheduler_init(global_scheduler_config.check_migrate_policy,
                                      global_scheduler_config.enable_prefill_migrate)
       /\ instance_info = st.instance_info
       /\ instance_id_set = st.instance_id_set
       /\ num_instance = st.num_instance
       /\ ms_instance_info = st.ms_instance_info
       /\ ms_instance_id_set = st.ms_instance_id_set
       /\ ms_num_instance = st.ms_num_instance
       /\ last_op = "scale_up"
       /\ args = [i \in 1..MaxInstance |-> i]
       /\ ret = <<>>
       /\ raised = "none"
       /\ in_update = NoUpdate
       /\ launch = NoLaunch
       /\ named_actor = 0
       /\ init_frames = NoInit
       /\ retry = NoRetry

\* a thread enters GlobalScheduler.update_instance_infos
update_instance_infos_call(instance_infos) ==
    /\ in_update.pc = "idle"
    /\ in_update' = [pc |-> "loop", rest |-> instance_infos,
                     batch |-> instance_infos, before |-> instance_info]
    /\ last_op' = "update_instance_infos"
    /\ args' = instance_infos
    /\ ret' = <<>>
    /\ UNCHANGED <<global_scheduler_config, check_migrate_policy, instance_info,
                   instance_id_set, num_instance, ms_instance_info, ms_instance_id_set,
                   ms_num_instance, raised, retry,
                   launch, named_actor, init_frames>>

\* the thread runs one iteration of the loop, or leaves the loop and returns
update_instance_infos_iter ==
    /\ in_update.pc = "loop"
    /\ IF in_update.rest = <<>>
       THEN /\ in_update' = NoUpdate
            /\ Commit(State)
       ELSE /\ in_update' = [in_update EXCEPT !.rest = Tail(@)]
            /\ Commit(update_instance_infos_step(State, Head(in_update.rest)))
    /\ last_op' = "update_instance_infos"
    /\ args' = in_update.batch
    /\ ret' = <<>>
    /\ UNCHANGED <<global_scheduler_config, check_migrate_policy, retry,
                   launch, named_actor, init_frames>>

NextThreads ==
    \/ \E instance_infos \in Batches : update_instance_infos_call(instance_infos)
    \/ update_instance_infos_iter
    \/ check_migrate

SpecThreads == InitThreads /\ [][NextThreads]_vars

----------------------------------------------------------------------------
(* retry_manager_method_sync and retry_manager_method_async (llumnix_utils.py) *)

MAX_TASK_RETRIES == 300

\* what one call of the manager method may do
Outcomes ==
    {[kind |-> "ok", value |-> v] : v \in 1..MaxResult}
    \cup {[kind |-> "RayActorError", value |-> 0], [kind |-> "OtherError", value |-> 0]}

\* retry_attempt that compares the attempt with MAX_TASK_RETRIES
retry_attempt_OffByOne(r, outcome) ==
    LET called == [r EXCEPT !.calls = @ + 1]
    IN CASE outcome.kind = "ok" ->
                [called EXCEPT !.ret = outcome.value, !.pc = "returned"]
         [] outcome.kind = "RayActorError" ->
                IF r.attempt < MAX_TASK_RETRIES
                THEN [called EXCEPT !.failures = @ + 1, !.pc = "sleeping"]
                ELSE [called EXCEPT !.failures = @ + 1, !.pc = "raised",
                                    !.exc = "RayActorError"]
         [] outcome.kind = "OtherError" ->
                [called EXCEPT !.pc = "raised", !.exc = "OtherError"]

\* one pass through the body of the for loop with the call's outcome: the
\* try, the break that leads to "return ret", and the except clause
retry_attempt(r, outcome) ==
    LET called == [r EXCEPT !.calls = @ + 1]
    IN CASE outcome.kind = "ok" ->
                [called EXCEPT !.ret = outcome.value, !.pc = "returned"]
         [] outcome.kind = "RayActorError" ->
                IF r.attempt < MAX_TASK_RETRIES - 1
                THEN [called EXCEPT !.failures = @ + 1, !.pc = "sleeping"]
                ELSE [called EXCEPT !.failures = @ + 1, !.pc = "raised",
                                    !.exc = "RayActorError"]
         [] outcome.kind = "OtherError" ->
                [called EXCEPT !.pc = "raised", !.exc = "OtherError"]

\* the sleep is over and the for statement takes the next attempt; when
\* range(MAX_TASK_RETRIES) is exhausted "return ret" reads a local never bound
retry_next(r) ==
    IF r.attempt + 1 < MAX_TASK_RETRIES
    THEN [r EXCEPT !.attempt = @ + 1, !.sleeps = @ + 1, !.pc = "loop"]
    ELSE [r EXCEPT !.attempt = @ + 1, !.sleeps = @ + 1, !.pc = "raised",
                   !.exc = "UnboundLocalError"]

\* the scheduler's variables, which the retry helpers do not touch
scheduler_vars ==
    <<global_scheduler_config, check_migrate_policy, instance_info, instance_id_set,
      num_instance, ms_instance_info, ms_instance_id_set, ms_num_instance,
      last_op, args, ret, raised, in_update, launch, named_actor, init_frames>>

\* a caller has entered one of the two helpers
InitRetry ==
    /\ global_scheduler_config \in Configs
    /\ check_migrate_policy =
           MigrationScheduler_init(global_scheduler_config.check_migrate_policy,
                                   global_scheduler_config.enable_prefill_migrate)
    /\ instance_info = <<>>
    /\ instance_id_set = {}
    /\ num_instance = 0
    /\ ms_instance_info = "None"
    /\ ms_instance_id_set = {}
    /\ ms_num_instance = 0
    /\ last_op = "init"
    /\ args = <<>>
    /\ ret = <<>>
    /\ raised = "none"
    /\ in_update = NoUpdate
    /\ launch = NoLaunch
    /\ named_actor = 0
    /\ init_frames = NoInit
    /\ retry \in {[NoRetry EXCEPT !.pc = "loop", !.is_async = b] : b \in BOOLEAN}

\* retry_manager_method_sync: ret = ray.get(ray_call(*args, **kwargs))
retry_manager_method_sync(outcome) ==
    /\ retry.pc = "loop"
    /\ ~retry.is_async
    /\ retry' = [retry_attempt(retry, outcome) EXCEPT !.last_outcome = outcome]
    /\ UNCHANGED scheduler_vars

\* retry_manager_method_sync: time.sleep(RETRIES_INTERVALS) returns
time_sleep ==
    /\ retry.pc = "sleeping"
    /\ ~retry.is_async
    /\ retry' = retry_next(retry)
    /\ UNCHANGED scheduler_vars

\* retry_manager_method_async: ret = await ray_call(*args, **kwargs)
retry_manager_method_async(outcome) ==
    /\ retry.pc = "loop"
    /\ retry.is_async
    /\ retry' = [retry_attempt(retry, outcome) EXCEPT !.last_outcome = outcome]
    /\ UNCHANGED scheduler_vars

\* retry_manager_method_async: await asyncio.sleep(RETRIES_INTERVALS) returns
asyncio_sleep ==
    /\ retry.pc = "sleeping"
    /\ retry.is_async
    /\ retry' = retry_next(retry)
    /\ UNCHANGED scheduler_vars

NextRetry ==
    \/ \E outcome \in Outcomes : retry_manager_method_sync(outcome)
    \/ time_sleep
    \/ \E outcome \in Outcomes : retry_manager_method_async(outcome)
    \/ asyncio_sleep

SpecRetry == InitRetry /\ [][NextRetry]_vars

----------------------------------------------------------------------------
(* launch_ray_cluster (llumnix_utils.py).  log is the set of the messages   *)
(* given to logger.info; exit is the way the function ended.                *)

MAX_RESTARTS == 30

\* sys.exit(1) after logger.info of the message
launch_exit(l, message) ==
    [l EXCEPT !.log = @ \cup {message}, !.pc = "exited", !.exit = "SystemExit(1)"]

\* 'ray stop --force' is over: the except clause, or the tests of
\* HEAD_NODE_IP and HEAD_NODE that lead to one of the two ways to start
launch_after_stop(l, ok) ==
    IF ~ok THEN launch_exit(l, "ray stop failed")
    ELSE IF l.head_node_ip = "None" THEN launch_exit(l, "HEAD_NODE_IP should be set")
    ELSE IF l.HEAD_NODE THEN [l EXCEPT !.pc = "head_start"]
    ELSE [l EXCEPT !.pc = "loop", !.attempt = 0]

\* 'ray start --head' is over
launch_after_head_start(l, ok) ==
    IF ok THEN [l EXCEPT !.result = "bound", !.pc = "log_success"]
    ELSE launch_exit(l, "ray start failed")

\* one pass through the body of the for loop with the outcome of 'ray start'
launch_attempt(l, ok) ==
    LET started == [l EXCEPT !.starts = @ + 1]
    IN IF ok THEN [started EXCEPT !.result = "bound", !.pc = "log_success"]
       ELSE IF l.attempt < MAX_RESTARTS
            THEN [started EXCEPT !.pc = "sleeping"]
            ELSE launch_exit(started, "ray start failed after attempts")

\* the sleep is over and the for statement takes the next attempt, or
\* range(MAX_RESTARTS) is exhausted and the statement after the loop is next
launch_next(l) ==
    IF l.attempt + 1 < MAX_RESTARTS
    THEN [l EXCEPT !.attempt = @ + 1, !.sleeps = @ + 1, !.pc = "loop"]
    ELSE [l EXCEPT !.attempt = @ + 1, !.sleeps = @ + 1, !.pc = "log_success"]

\* logger.info("... succeeed with ...".format(..., result.stdout)): the
\* argument is evaluated first and result may be a local never bound
launch_log(l) ==
    IF l.result = "unbound"
    THEN [l EXCEPT !.pc = "raised", !.exit = "UnboundLocalError"]
    ELSE [l EXCEPT !.log = @ \cup {"ray start succeeded"}, !.pc = "ray_init"]

\* everything but the frame of launch_ray_cluster
not_launch_vars ==
    <<global_scheduler_config, check_migrate_policy, instance_info, instance_id_set,
      num_instance, ms_instance_info, ms_instance_id_set, ms_num_instance,
      last_op, args, ret, raised, in_update, retry, named_actor, init_frames>>

\* a node has entered launch_ray_cluster, with its environment
InitLaunch ==
    /\ global_scheduler_config \in Configs
    /\ check_migrate_policy =
           MigrationScheduler_init(global_scheduler_config.check_migrate_policy,
                                   global_scheduler_config.enable_prefill_migrate)
    /\ instance_info = <<>>
    /\ instance_id_set = {}
    /\ num_instance = 0
    /\ ms_instance_info = "None"
    /\ ms_instance_id_set = {}
    /\ ms_num_instance = 0
    /\ last_op = "init"
    /\ args = <<>>
    /\ ret = <<>>
    /\ raised = "none"
    /\ in_update = NoUpdate
    /\ retry = NoRetry
    /\ named_actor = 0
    /\ init_frames = NoInit
    /\ launch \in {[NoLaunch EXCEPT !.pc = "stop", !.head_node_ip = ip, !.HEAD_NODE = head] :
                      ip \in {"None", "set"}, head \in BOOLEAN}

\* subprocess.run(['ray', 'stop', '--force'], ...) returns or raises
ray_stop(ok) ==
    /\ launch.pc = "stop"
    /\ launch' = launch_after_stop(launch, ok)
    /\ UNCHANGED not_launch_vars

\* subprocess.run(['ray', 'start', '--head', ...]) returns or raises
ray_start_head(ok) ==
    /\ launch.pc = "head_start"
    /\ launch' = launch_after_head_start(launch, ok)
    /\ UNCHANGED not_launch_vars

\* subprocess.run(['ray', 'start', '--address=...']) returns or raises
ray_start(ok) ==
    /\ launch.pc = "loop"
    /\ launch' = launch_attempt(launch, ok)
    /\ UNCHANGED not_launch_vars

\* time.sleep(RESTART_INTERVALS) returns
restart_sleep ==
    /\ launch.pc = "sleeping"
    /\ launch' = launch_next(launch)
    /\ UNCHANGED not_launch_vars

\* the logger.info after the two branches
log_success ==
    /\ launch.pc = "log_success"
    /\ launch' = launch_log(launch)
    /\ UNCHANGED not_launch_vars

\* ray.init(...)
ray_init ==
    /\ launch.pc = "ray_init"
    /\ launch' = [launch EXCEPT !.pc = "done"]
    /\ UNCHANGED not_launch_vars

NextLaunch ==
    \/ \E ok \in BOOLEAN : ray_stop(ok)
    \/ \E ok \in BOOLEAN : ray_start_head(ok)
    \/ \E ok \in BOOLEAN : ray_start(ok)
    \/ restart_sleep
    \/ log_success
    \/ ray_init

SpecLaunch == InitLaunch /\ [][NextLaunch]_vars

----------------------------------------------------------------------------
(* init_manager (llumnix_utils.py) called on several nodes.  named_actor is *)
(* 0 while ray knows no actor named MANAGER_ACTOR_NAME, and otherwise the   *)
(* actor, which is named after the node that created it.                    *)

\* LLMEngineManager.from_args: asks ray for a new actor named
\* MANAGER_ACTOR_NAME; ray registers the name in one step and raises
\* ValueError when the name is taken
LLMEngineManager_from_args(actor, n) ==
    IF actor = 0
    THEN [named_actor |-> n, engine_manager |-> n, raised |-> "none"]
    ELSE [named_actor |-> actor, engine_manager |-> 0, raised |-> "ValueError"]

\* the try clause of init_manager on node n, given what from_args did
init_manager_try(f, made) ==
    IF made.raised = "none"
    THEN [f EXCEPT !.engine_manager = made.engine_manager, !.created = TRUE, !.pc = "done"]
    ELSE [f EXCEPT !.pc = "except"]

\* the except clause with a manager of the node's own in place of get_actor
init_manager_except_OwnManager(f, actor, n) ==
    [f EXCEPT !.engine_manager = n, !.pc = "done"]

\* the except clause of init_manager on node n: ray.get_actor returns the
\* actor of that name, or raises ValueError when there is none
init_manager_except(f, actor, n) ==
    IF actor # 0
    THEN [f EXCEPT !.engine_manager = actor, !.pc = "done"]
    ELSE [f EXCEPT !.pc = "raised"]

\* everything but the named actor and the frames of init_manager
not_init_vars ==
    <<global_scheduler_config, check_migrate_policy, instance_info, instance_id_set,
      num_instance, ms_instance_info, ms_instance_id_set, ms_num_instance,
      last_op, args, ret, raised, in_update, retry, launch>>

\* node n enters init_manager
init_manager(n) ==
    /\ init_frames[n].pc = "idle"
    /\ init_frames' = [init_frames EXCEPT ![n].pc = "try"]
    /\ UNCHANGED named_actor
    /\ UNCHANGED not_init_vars

\* node n: engine_manager = LLMEngineManager.from_args(engine_manager_args, None)
init_manager_create(n) ==
    /\ init_frames[n].pc = "try"
    /\ LET made == LLMEngineManager_from_args(named_actor, n)
       IN /\ named_actor' = made.named_actor
          /\ init_frames' = [init_frames EXCEPT ![n] = init_manager_try(@, made)]
    /\ UNCHANGED not_init_vars

\* node n: engine_manager = ray.get_actor(MANAGER_ACTOR_NAME, namespace='llumnix')
init_manager_get(n) ==
    /\ init_frames[n].pc = "except"
    /\ init_frames' = [init_frames EXCEPT ![n] = init_manager_except(@, named_actor, n)]
    /\ UNCHANGED named_actor
    /\ UNCHANGED not_init_vars

NextManager ==
    \/ \E n \in Nodes : init_manager(n)
    \/ \E n \in Nodes : init_manager_create(n)
    \/ \E n \in Nodes : init_manager_get(n)

SpecManager == Init /\ [][NextManager]_vars

----------------------------------------------------------------------------
(* Properties *)

Threshold == global_scheduler_config.migrate_out_load_threshold
Info(id) == DictGet(instance_info, id)
Range(s) == {s[i] : i \in 1..Len(s)}
Sources(pairs) == {pairs[i][1] : i \in 1..Len(pairs)}
Destinations(pairs) == {pairs[i][2] : i \in 1..Len(pairs)}
Checked == last_op = "check_migrate"

\* a <= b
FLe(a, b) == FLt(a, b) \/ FEq(a, b)

\* C1: after every public operation the registry's keys are instance_id_set,
\* num_instance is the size of both, and the MigrationScheduler's mirror of the
\* membership equals the GlobalScheduler's.
C1_MembershipConsistent ==
    /\ Keys(instance_info) = instance_id_set
    /\ num_instance = Cardinality(instance_id_set)
    /\ num_instance = Len(instance_info)
    /\ ms_instance_id_set = instance_id_set
    /\ ms_num_instance = num_instance

\* after a scale_down that names an id now absent, one instance is left
C1_Witness ==
    /\ last_op = "scale_down"
    /\ \E id \in Range(args) : id \notin instance_id_set
    /\ num_instance = 1

\* C2: no pair returned by check_migrate, under any policy, has its source equal
\* to its destination.
C2_NoSelfPair ==
    Checked => \A i \in 1..Len(ret) : ret[i][1] # ret[i][2]

\* C3: under balanced every returned pair has a destination whose projected load
\* does not exceed the threshold, and either its projected gap is positive and
\* smaller than the gap before the migration or its destination was at -inf.
C3_BalancedGate ==
    (Checked /\ check_migrate_policy = "balanced") =>
        \A i \in 1..Len(ret) :
            LET s == Info(ret[i][1])
                d == Info(ret[i][2])
                gap_before == FSub(s.instance_load_migrate, d.instance_load_migrate)
                d_after == compute_instance_load_after_migrate(d, TRUE)
                s_after == compute_instance_load_after_migrate(s, FALSE)
                gap_after == FSub(s_after, d_after)
            IN /\ FLe(d_after, Threshold)
               /\ \/ FLt(Fin(0), gap_after) /\ FLt(gap_after, gap_before)
                  \/ d.instance_load_migrate = NegInf

\* balanced returns a pair whose destination has a finite load
C3_Witness ==
    /\ Checked
    /\ check_migrate_policy = "balanced"
    /\ \E i \in 1..Len(ret) : Info(ret[i][2]).instance_load_migrate # NegInf

\* the registry is exactly a fresh instance and a hot one, as <<new, hot>> ids
FreshAndHot(new, hot) ==
    /\ Keys(instance_info) = {new, hot}
    /\ new # hot
    /\ Info(new) = [get_empty_instance_info EXCEPT !.instance_id = new]
    /\ FGt(Info(hot).instance_load_migrate, Threshold)

\* C4 as stated: with a fresh instance and a hot one, balanced returns
\* [(hot, new)] whatever the projected loads.
C4_SentinelAlwaysWins ==
    (Checked /\ check_migrate_policy = "balanced") =>
        \A new, hot \in Keys(instance_info) :
            FreshAndHot(new, hot) => ret = << <<hot, new>> >>

\* C4 amended: with a fresh instance and a hot one, balanced returns [(hot, new)]
\* when the projected load of the fresh instance does not exceed the threshold,
\* whatever the projected gap, and the empty list when it does.
C4_SentinelUnlessOverThreshold ==
    (Checked /\ check_migrate_policy = "balanced") =>
        \A new, hot \in Keys(instance_info) :
            FreshAndHot(new, hot) =>
                ret = IF FGt(compute_instance_load_after_migrate(Info(new), TRUE), Threshold)
                      THEN <<>>
                      ELSE << <<hot, new>> >>

\* the pair is returned although the projected gap is not positive
C4_Witness ==
    /\ Checked
    /\ check_migrate_policy = "balanced"
    /\ \E new, hot \in Keys(instance_info) :
           /\ FreshAndHot(new, hot)
           /\ ret = << <<hot, new>> >>
           /\ ~FLt(Fin(0), FSub(compute_instance_load_after_migrate(Info(hot), FALSE),
                                compute_instance_load_after_migrate(Info(new), TRUE)))

C6_LeftRightDisjoint ==
    LET sorted_instance_infos == sort_instance_infos(Values(instance_info), FALSE)
        left == LeftInstanceInfos(sorted_instance_infos, Threshold)
        right == RightInstanceInfos(sorted_instance_infos, Threshold)
    IN /\ Range(left) \cap Range(right) = {}
       /\ (Checked /\ check_migrate_policy \in {"balanced", "prefill_constrained"}) =>
              Sources(ret) \cap Destinations(ret) = {}

\* a source that has killed requests and a load below the threshold: it passes the
\* load test of the destinations and is kept out of them by its killed requests
C6_Witness ==
    /\ Checked
    /\ check_migrate_policy \in {"balanced", "prefill_constrained"}
    /\ \E i \in 1..Len(ret) :
           /\ Info(ret[i][1]).num_killed_request > 0
           /\ FLt(Info(ret[i][1]).instance_load_migrate, Threshold)

\* C7: the destination of every returned pair has no killed request and a load
\* strictly below migrate_out_load_threshold.
C7_DestinationEligible ==
    Checked =>
        \A i \in 1..Len(ret) :
            /\ Info(ret[i][2]).num_killed_request = 0
            /\ FLt(Info(ret[i][2]).instance_load_migrate, Threshold)

\* a destination is chosen while another instance sits exactly at the threshold
C7_Witness ==
    /\ Checked
    /\ check_migrate_policy \in {"balanced", "prefill_constrained"}
    /\ ret # <<>>
    /\ \E id \in Keys(instance_info) :
           /\ Info(id).num_killed_request = 0
           /\ FEq(Info(id).instance_load_migrate, Threshold)

\* C8: both ids of every pair check_migrate returns are in instance_id_set, and
\* none of them is an id the scale_down just before has removed.
C8_PairsAreMembers ==
    [][last_op' = "check_migrate" =>
          /\ Sources(ret') \cup Destinations(ret') \subseteq instance_id_set'
          /\ last_op = "scale_down" =>
                 Range(args) \cap (Sources(ret') \cup Destinations(ret')) = {}]_vars

\* after a scale_down that names an id now absent, the check_migrate that
\* follows returns pairs
C8_Witness ==
    /\ last_op = "scale_down"
    /\ \E id \in Range(args) : id \notin instance_id_set
    /\ MigrationScheduler_check_migrate(check_migrate_policy, instance_info, Threshold) # <<>>

\* the infos of the batch for one id, and the last of them
BatchIds(batch) == {batch[i].instance_id : i \in 1..Len(batch)}
LastFor(batch, id) ==
    LET last == CHOOSE i \in 1..Len(batch) :
                    /\ batch[i].instance_id = id
                    /\ \A j \in 1..Len(batch) : batch[j].instance_id = id => j <= i
    IN batch[last]

\* C9: update_instance_infos drops the infos of unknown ids: the registry's keys,
\* instance_id_set and num_instance stay as they were, the known ids of the same
\* batch are updated and nothing is raised.
C9_UnknownDropped ==
    [][last_op' = "update_instance_infos" =>
          /\ [i \in 1..Len(instance_info') |-> instance_info'[i].key]
                 = [i \in 1..Len(instance_info) |-> instance_info[i].key]
          /\ instance_id_set' = instance_id_set
          /\ num_instance' = num_instance
          /\ raised' = "none"
          /\ \A id \in BatchIds(args') \cap Keys(instance_info) :
                 /\ DictGet(instance_info', id).instance_id = id
                 /\ \E i \in 1..Len(args') :
                        DictGet(instance_info', id) = Ingested(args'[i])]_vars

\* a batch with an unknown id and a known one has been ingested
C9_Witness ==
    /\ last_op = "update_instance_infos"
    /\ raised = "none"
    /\ \E i, j \in 1..Len(args) :
           /\ args[i].instance_id \notin Keys(instance_info)
           /\ args[j].instance_id \in Keys(instance_info)
           /\ Info(args[j].instance_id) = Ingested(args[j])

\* C10: after update_instance_infos every known id of the batch holds the last
\* info the batch has for it, with its two loads as the calculator computes them
\* from that info; the entries of the other ids stay as they were.
C10_NewestWriteWins ==
    [][last_op' = "update_instance_infos" =>
          \A id \in Keys(instance_info) :
              IF id \in BatchIds(args')
              THEN LET info == LastFor(args', id)
                       entry == DictGet(instance_info', id)
                   IN /\ entry = [info EXCEPT
                                     !.instance_load_dispatch_scale = entry.instance_load_dispatch_scale,
                                     !.instance_load_migrate = entry.instance_load_migrate]
                      /\ entry.instance_load_dispatch_scale
                             = compute_instance_load(info, "dispatch")
                      /\ entry.instance_load_migrate = compute_instance_load(info, "migrate")
              ELSE DictGet(instance_info', id) = DictGet(instance_info, id)]_vars

\* one batch carried two different infos for a known id
C10_Witness ==
    /\ last_op = "update_instance_infos"
    /\ Len(args) = 2
    /\ args[1].instance_id = args[2].instance_id
    /\ args[1] # args[2]
    /\ args[1].instance_id \in Keys(instance_info)
    /\ compute_instance_load(args[1], "dispatch") # compute_instance_load(args[1], "migrate")

\* the scheduler's state but for the bookkeeping of the last call
SchedulerState ==
    <<instance_info, instance_id_set, num_instance,
      ms_instance_info, ms_instance_id_set, ms_num_instance>>

\* C11: a scale_up that names only known ids and a scale_down that names only
\* unknown ids leave the whole state as it was and raise nothing; a second
\* scale_up of an id changes nothing after the first.
C11_DoubleScaleNoOp ==
    [][/\ \/ last_op' = "scale_up" /\ Range(args') \subseteq Keys(instance_info)
          \/ last_op' = "scale_down" /\ Range(args') \cap Keys(instance_info) = {}
          => UNCHANGED SchedulerState /\ raised' = "none"
       /\ \A id \in InstanceIds :
              scale_up_loop(scale_up_loop(State, <<id>>), <<id>>) = scale_up_loop(State, <<id>>)
      ]_vars

\* a scale_up has named an instance that still holds the data of a heartbeat
C11_Witness ==
    /\ last_op = "scale_up"
    /\ raised = "none"
    /\ \E id \in Range(args) :
           /\ id \in Keys(instance_info)
           /\ Info(id).instance_load_migrate # NegInf
           /\ Info(id).num_running_request > 0

\* the registry and its mirror in the migration scheduler
Registry(st) ==
    <<st.instance_info, st.instance_id_set, st.num_instance,
      st.ms_instance_id_set, st.ms_num_instance>>

\* scale_up([id]) followed by scale_down([id])
UpThenDown(st, id) == scale_down_loop(scale_up_loop(st, <<id>>), <<id>>)

\* C12 as stated: for any registry and any id, scale_up([id]) followed by
\* scale_down([id]) restores the registry and the mirror.
C12_RoundTripAnyId ==
    \A id \in InstanceIds : Registry(UpThenDown(State, id)) = Registry(State)

\* C12 amended: for any registry and any id that is not in it, scale_up([id])
\* followed by scale_down([id]) restores the registry and the mirror, and
\* neither call raises; for an id that is in it, the pair of calls removes it.
C12_RoundTripNewId ==
    \A id \in InstanceIds :
        /\ id \notin instance_id_set =>
               /\ Registry(UpThenDown(State, id)) = Registry(State)
               /\ UpThenDown(State, id).raised = "none"
               /\ id \in scale_up_loop(State, <<id>>).instance_id_set
        /\ id \in instance_id_set =>
               /\ id \notin UpThenDown(State, id).instance_id_set
               /\ id \notin Keys(UpThenDown(State, id).instance_info)

\* a registry that holds the data of a heartbeat for one id and lacks another
C12_Witness ==
    /\ \E id \in InstanceIds : id \notin instance_id_set
    /\ \E id \in instance_id_set : Info(id).num_running_request > 0

\* the registry in the order the migration scheduler hands to its policy
SortedRegistry == sort_instance_infos(Values(instance_info), FALSE)

\* what a scheduler built with the named policy returns on the registry
ResultOf(policy_name, enable_prefill_migrate) ==
    MigrationScheduler_check_migrate(
        MigrationScheduler_init(policy_name, enable_prefill_migrate),
        instance_info, Threshold)

\* C14: with enable_prefill_migrate false, check_migrate returns what a
\* scheduler configured with balanced returns, whatever policy is configured;
\* with enable_prefill_migrate true it returns what the configured policy
\* computes on the sorted registry.
C14_PolicyResolution ==
    Checked =>
        /\ ~global_scheduler_config.enable_prefill_migrate =>
               /\ ret = Balanced_check_migrate(SortedRegistry, Threshold)
               /\ \A b \in BOOLEAN : ret = ResultOf("balanced", b)
        /\ global_scheduler_config.enable_prefill_migrate =>
               /\ global_scheduler_config.check_migrate_policy = "balanced" =>
                      ret = Balanced_check_migrate(SortedRegistry, Threshold)
               /\ global_scheduler_config.check_migrate_policy = "prefill_constrained" =>
                      ret = PrefillConstrained_check_migrate(SortedRegistry, Threshold)
               /\ global_scheduler_config.check_migrate_policy = "prefill_relaxed" =>
                      ret = PrefillRelaxed_check_migrate(SortedRegistry, Threshold)

\* check_migrate has run with prefill migration disabled and a configured
\* policy that would have returned another list on this registry
C14_Witness ==
    /\ Checked
    /\ ~global_scheduler_config.enable_prefill_migrate
    /\ global_scheduler_config.check_migrate_policy = "prefill_relaxed"
    /\ ret # PrefillRelaxed_check_migrate(SortedRegistry, Threshold)
    /\ ret # <<>>

\* C15: check_migrate leaves the registry as it was under every policy: the
\* keys, the membership sets and every field of every stored InstanceInfo.
C15_CheckMigrateReadOnly ==
    [][last_op' = "check_migrate" =>
           /\ instance_info' = instance_info
           /\ Keys(instance_info') = Keys(instance_info)
           /\ UNCHANGED <<instance_id_set, num_instance, ms_instance_id_set, ms_num_instance>>
      ]_vars

\* Balanced has projected a destination and a source, one of which has a last
\* running request that holds blocks
C15_Witness ==
    /\ Checked
    /\ check_migrate_policy = "balanced"
    /\ LeftInstanceInfos(SortedRegistry, Threshold) # <<>>
    /\ RightInstanceInfos(SortedRegistry, Threshold) # <<>>
    /\ \/ LeftInstanceInfos(SortedRegistry, Threshold)[1].num_block_last_running_request > 0
       \/ RightInstanceInfos(SortedRegistry, Threshold)[1].num_block_last_running_request > 0

\* C16: no call raises. check_migrate on a registry that is empty, or that was
\* never populated, returns the empty list; scale_up and scale_down of a list
\* that names an id twice, and scale_down of ids never admitted, end normally,
\* the removals from the two sets finding the id they remove.
C16_NothingRaises ==
    /\ raised = "none"
    /\ Checked /\ instance_info = <<>> => ret = <<>>
    /\ \A ids \in IdLists :
           /\ scale_up_loop(State, ids).raised = "none"
           /\ scale_down_loop(State, ids).raised = "none"
    /\ \A id \in Keys(instance_info) : id \in instance_id_set /\ id \in ms_instance_id_set

\* a scale_down has named the same id twice and has left another instance
C16_Witness ==
    /\ last_op = "scale_down"
    /\ Len(args) = 2
    /\ args[1] = args[2]
    /\ args[1] \notin instance_id_set
    /\ num_instance = 1
    /\ raised = "none"

\* the empty InstanceInfo of the instance id
EmptyFor(id) == [get_empty_instance_info EXCEPT !.instance_id = id]

\* the instance id is in the registry with the entry its admission gave it
IsFresh(id) == id \in Keys(instance_info) /\ Info(id) = EmptyFor(id)

\* the fresh instances are destination candidates and none of them comes after
\* an instance with a finite load in the sorted list
FreshAhead ==
    \A id \in InstanceIds : IsFresh(id) =>
        /\ Info(id).instance_load_migrate = NegInf
        /\ \E i \in 1..Len(LeftInstanceInfos(SortedRegistry, Threshold)) :
               LeftInstanceInfos(SortedRegistry, Threshold)[i].instance_id = id
        /\ \A i, j \in 1..Len(SortedRegistry) :
               /\ SortedRegistry[i].instance_id = id
               /\ SortedRegistry[j].instance_load_migrate.k = "fin"
               => i < j

\* C17: a scale_up gives every id it admits the empty InstanceInfo with
\* instance_id set to that id (two ids admitted by one call each get their
\* own); the entry stays so through every call but an update_instance_infos
\* that carries the id and a scale_down that names it; while it is so the
\* instance has load -inf, is a destination candidate and is sorted ahead of
\* every instance with a finite load.
C17_FreshUntilHeartbeat ==
    [][/\ last_op' = "scale_up" =>
              \A id \in Range(args') \ Keys(instance_info) : IsFresh(id)'
       /\ \A id \in InstanceIds :
              /\ IsFresh(id)
              /\ ~(last_op' = "update_instance_infos"
                     /\ \E i \in 1..Len(args') : args'[i].instance_id = id)
              /\ ~(last_op' = "scale_down" /\ id \in Range(args'))
              => IsFresh(id)'
       /\ FreshAhead'
      ]_vars

\* a scale_up has admitted an instance next to one that has a finite load
C17_Witness ==
    /\ last_op = "scale_up"
    /\ \E new \in Range(args), old \in Keys(instance_info) :
           /\ IsFresh(new)
           /\ Info(old).instance_load_migrate.k = "fin"
           /\ SortedRegistry[1].instance_id = new

\* the instances with no killed request and a load equal to the threshold
AtThreshold ==
    {id \in Keys(instance_info) :
        /\ Info(id).num_killed_request = 0
        /\ FEq(Info(id).instance_load_migrate, Threshold)}

\* the ids of a list of InstanceInfos
IdsOf(infos) == {infos[i].instance_id : i \in 1..Len(infos)}

\* C18: under balanced and prefill_constrained an instance with no killed
\* request and a load equal to migrate_out_load_threshold is in neither list
\* and in no pair that check_migrate returns.
C18_AtThresholdInert ==
    Checked /\ check_migrate_policy \in {"balanced", "prefill_constrained"} =>
        \A id \in AtThreshold :
            /\ id \notin IdsOf(LeftInstanceInfos(SortedRegistry, Threshold))
            /\ id \notin IdsOf(RightInstanceInfos(SortedRegistry, Threshold))
            /\ id \notin Sources(ret) \cup Destinations(ret)

\* prefill_constrained has returned a pair while a third instance sits at the
\* threshold with no killed request
C18_Witness ==
    /\ Checked
    /\ check_migrate_policy = "prefill_constrained"
    /\ AtThreshold # {}
    /\ ret # <<>>
    /\ Len(instance_info) = 3

\* the pairs of a list of pairs
PairsOf(pairs) == {pairs[i] : i \in 1..Len(pairs)}

\* the positions at which the source has killed requests but no load above the
\* threshold, and no load above the finite load of the destination
KilledOnlyPositions ==
    LET left_instance_infos == LeftInstanceInfos(SortedRegistry, Threshold)
        right_instance_infos == RightInstanceInfos(SortedRegistry, Threshold)
    IN {i \in 1..Min(Len(left_instance_infos), Len(right_instance_infos)) :
           /\ right_instance_infos[i].num_killed_request > 0
           /\ ~FGt(right_instance_infos[i].instance_load_migrate, Threshold)
           /\ left_instance_infos[i].instance_load_migrate.k = "fin"
           /\ ~FGt(right_instance_infos[i].instance_load_migrate,
                   left_instance_infos[i].instance_load_migrate)}

\* the pair of the two lists at a position
PairAt(i) ==
    <<RightInstanceInfos(SortedRegistry, Threshold)[i].instance_id,
      LeftInstanceInfos(SortedRegistry, Threshold)[i].instance_id>>

\* C19: under balanced the source of every pair has a load above the load of
\* the destination, or the destination is at -inf; a source that is a source
\* only by its killed requests and whose load is not above the finite load of
\* the destination is not paired with it, while prefill_constrained returns
\* that pair on the same registry.
C19_BalancedNeedsGap ==
    Checked =>
        /\ check_migrate_policy = "balanced" =>
               /\ \A p \in PairsOf(ret) :
                      \/ FGt(Info(p[1]).instance_load_migrate, Info(p[2]).instance_load_migrate)
                      \/ Info(p[2]).instance_load_migrate = NegInf
               /\ \A s, d \in Keys(instance_info) :
                      /\ Info(s).num_killed_request > 0
                      /\ ~FGt(Info(s).instance_load_migrate, Threshold)
                      /\ Info(d).instance_load_migrate.k = "fin"
                      /\ ~FGt(Info(s).instance_load_migrate, Info(d).instance_load_migrate)
                      => <<s, d>> \notin PairsOf(ret)
        /\ \A i \in KilledOnlyPositions :
               /\ PairAt(i) \notin PairsOf(Balanced_check_migrate(SortedRegistry, Threshold))
               /\ PairAt(i) \in PairsOf(PrefillConstrained_check_migrate(SortedRegistry, Threshold))

\* balanced has met a source with killed requests and a load not above its
\* destination's, next to a third instance
C19_Witness ==
    /\ Checked
    /\ check_migrate_policy = "balanced"
    /\ KilledOnlyPositions # {}
    /\ Len(instance_info) = 3

\* the registry once the batch in progress is applied in full to the registry
\* that its call found
AfterBatch ==
    update_instance_infos_loop([State EXCEPT !.instance_info = in_update.before],
                               in_update.batch).instance_info

\* C13: a check_migrate that runs while update_instance_infos is in progress
\* on another thread returns what it returns on the registry with none of the
\* updates of the batch, or on the registry with all of them.
C13_UpdateAppearsAtomic ==
    Checked /\ in_update.pc = "loop" =>
        ret \in {MigrationScheduler_check_migrate(
                     check_migrate_policy, in_update.before, Threshold),
                 MigrationScheduler_check_migrate(
                     check_migrate_policy, AfterBatch, Threshold)}

\* C20: each helper calls the manager at most MAX_TASK_RETRIES times. It
\* returns as soon as a call succeeds, with the value of that call, every call
\* before it having failed with RayActorError and been followed by a sleep; it
\* raises RayActorError only when the MAX_TASK_RETRIES-th call fails with it,
\* after MAX_TASK_RETRIES - 1 sleeps; any other exception ends it at the call
\* that raised it; it ends in no other way, and makes no call once it has ended.
C20_RetryContract ==
    /\ retry.calls <= MAX_TASK_RETRIES
    /\ retry.exc \in {"none", "RayActorError", "OtherError"}
    /\ retry.pc = "loop" =>
           /\ retry.calls = retry.attempt
           /\ retry.failures = retry.attempt
           /\ retry.sleeps = retry.attempt
           /\ retry.attempt < MAX_TASK_RETRIES
    /\ retry.pc = "sleeping" =>
           /\ retry.last_outcome.kind = "RayActorError"
           /\ retry.calls = retry.attempt + 1
           /\ retry.calls < MAX_TASK_RETRIES
    /\ retry.pc = "returned" =>
           /\ retry.last_outcome.kind = "ok"
           /\ retry.ret = retry.last_outcome.value
           /\ retry.calls = retry.attempt + 1
           /\ retry.failures = retry.attempt
           /\ retry.sleeps = retry.attempt
    /\ retry.pc = "raised" /\ retry.exc = "RayActorError" =>
           /\ retry.last_outcome.kind = "RayActorError"
           /\ retry.calls = MAX_TASK_RETRIES
           /\ retry.failures = MAX_TASK_RETRIES
           /\ retry.sleeps = MAX_TASK_RETRIES - 1
    /\ retry.pc = "raised" /\ retry.exc = "OtherError" =>
           /\ retry.last_outcome.kind = "OtherError"
           /\ retry.calls = retry.attempt + 1
           /\ retry.failures = retry.attempt
           /\ retry.sleeps = retry.attempt
    /\ retry.pc \in {"returned", "raised"} =>
           \A outcome \in Outcomes :
               /\ ~ENABLED retry_manager_method_sync(outcome)
               /\ ~ENABLED retry_manager_method_async(outcome)

\* the asynchronous helper has re-raised the RayActorError of its last attempt
C20_Witness ==
    /\ retry.is_async
    /\ retry.pc = "raised"
    /\ retry.exc = "RayActorError"
    /\ retry.calls = MAX_TASK_RETRIES

\* C21: on a node that is not the head, once 'ray start' has failed
\* MAX_RESTARTS times launch_ray_cluster has logged the failure and left with
\* sys.exit(1); and it is at the success log line, at ray.init or past it
\* only after a 'ray start' that succeeded.
C21_ExitAfterAllRestartsFail ==
    /\ /\ ~launch.HEAD_NODE
       /\ launch.starts = MAX_RESTARTS
       /\ launch.result = "unbound"
       => /\ launch.pc = "exited"
          /\ launch.exit = "SystemExit(1)"
          /\ "ray start failed after attempts" \in launch.log
    /\ launch.pc \in {"log_success", "ray_init", "done"} => launch.result = "bound"

\* the nodes whose init_manager has returned
Returned == {n \in Nodes : init_frames[n].pc = "done"}

\* the nodes whose init_manager has created the manager
Creators == {n \in Nodes : init_frames[n].created}

\* C22: of the nodes that run init_manager, one after another or at once,
\* exactly one creates the manager; a node is in the except clause only when
\* the named actor exists, leaves it with that actor and never with an
\* exception; so all the nodes that have returned hold the same manager.
C22_OneManager ==
    /\ Cardinality(Creators) = IF named_actor = 0 THEN 0 ELSE 1
    /\ Creators = {n \in Nodes : n = named_actor}
    /\ \A n \in Nodes :
           /\ init_frames[n].pc # "raised"
           /\ init_frames[n].pc = "except" => named_actor # 0
    /\ \A n \in Returned :
           /\ init_frames[n].engine_manager # 0
           /\ init_frames[n].engine_manager = named_actor
    /\ \A n, m \in Returned : init_frames[n].engine_manager = init_frames[m].engine_manager

\* every node has returned, all but one of them through the except clause
C22_Witness ==
    /\ Returned = Nodes
    /\ Cardinality(Creators) = 1
    /\ Cardinality(Nodes \ Creators) = MaxNode - 1
    /\ \E n \in Nodes \ Creators : init_frames[n].engine_manager = named_actor

====
